---- MODULE Spec2Model ----
(***************************************************************************)
(* Model of the lsyiot_adapter_hub_sdk clients.                            *)
(*                                                                         *)
(*   AdapterHubRpcClient  (rpc_client.py)  + AdapterHubRpcResult           *)
(*   AdapterHubApiClient  (api_client.py)  + AdapterHubApiResult           *)
(*   AdapterHubRpcError / AdapterHubApiError (exceptions.py)               *)
(*                                                                         *)
(* Strings are sequences of tokens.  A URL is a sequence whose tokens are  *)
(* either the separator "/" or a slash-free segment, so that str.lstrip    *)
(* and str.rstrip act on it as they act on the characters.  The Chinese    *)
(* message literals of the source are written in English.                  *)
(***************************************************************************)
EXTENDS Integers, Sequences, FiniteSets, TLC

VARIABLES
    rpc_url,        \* AdapterHubRpcClient.rpc_url
    api_base_arg,   \* the api_base_url argument the API client was built from
    api_base_url,   \* AdapterHubApiClient.api_base_url
    session,        \* AdapterHubApiClient._session: "open" or "closed"
    scope,          \* the caller's position: "outside" or "inside" a with block
    exitCause,      \* the exception handed to the last __exit__ (NoExc if none)
    escaped,        \* the exception that left the last with block (NoExc if none)
    last            \* the last completed domain call: its inputs and outcome

vars == <<rpc_url, api_base_arg, api_base_url, session, scope, exitCause, escaped, last>>

(***************************************************************************)
(* Python values: None, bool, int, str, list, dict.  One record shape, so  *)
(* that values of different Python types compare unequal.                  *)
(***************************************************************************)
PyNone == [t |-> "none", i |-> 0, s |-> <<>>, d |-> <<>>]
PyBool(b) == [t |-> "bool", i |-> IF b THEN 1 ELSE 0, s |-> <<>>, d |-> <<>>]
PyInt(n) == [t |-> "int", i |-> n, s |-> <<>>, d |-> <<>>]
PyStr(toks) == [t |-> "str", i |-> 0, s |-> toks, d |-> <<>>]
PyList == [t |-> "list", i |-> 0, s |-> <<>>, d |-> <<>>]
PyDict(f) == [t |-> "dict", i |-> 0, s |-> <<>>, d |-> f]

\* Python truth value of v, as `not v` / `if v` compute it.
Truthy(v) ==
    CASE v.t = "none" -> FALSE
      [] v.t = "bool" -> v.i = 1
      [] v.t = "int"  -> v.i # 0
      [] v.t = "str"  -> v.s # <<>>
      [] v.t = "list" -> FALSE
      [] v.t = "dict" -> DOMAIN v.d # {}

\* Python `v == n` for an int literal n (True == 1, False == 0).
PyEqInt(v, n) == v.t \in {"int", "bool"} /\ v.i = n

\* Python `v == s` for a str literal s.
PyEqStr(v, toks) == v.t = "str" /\ v.s = toks

\* dict.get(key, default)
DictGet(dict, key, default) ==
    IF key \in DOMAIN dict.d THEN dict.d[key] ELSE default

\* str(v) inside an f-string.
StrOf(v) ==
    CASE v.t = "none" -> <<"None">>
      [] v.t = "bool" -> IF v.i = 1 THEN <<"True">> ELSE <<"False">>
      [] v.t = "int"  -> <<ToString(v.i)>>
      [] v.t = "str"  -> v.s
      [] v.t = "list" -> <<"[]">>
      [] v.t = "dict" -> <<"{...}">>

\* needle occurs in haystack as a contiguous run of tokens (Python `in`).
Contains(haystack, needle) ==
    \E k \in 0..(Len(haystack) - Len(needle)) :
        SubSeq(haystack, k + 1, k + Len(needle)) = needle

(***************************************************************************)
(* json.loads over token texts.  An object text is "{" k1 v1 ... kn vn "}" *)
(* with scalar values; "[" "]" and a lone scalar are valid non-object      *)
(* documents; everything else is not JSON.                                 *)
(***************************************************************************)
ScalarToks == {"200", "201", "-1", "0", "true", "false", "null",
               "\"ok\"", "\"fail\"", "\"success\"", "\"error\"", "\"\""}

JsonKeys == {"code", "message", "data", "error", "status", "extra"}

JsonScalar(tok) ==
    CASE tok = "200"   -> PyInt(200)
      [] tok = "201"   -> PyInt(201)
      [] tok = "-1"    -> PyInt(-1)
      [] tok = "0"     -> PyInt(0)
      [] tok = "true"  -> PyBool(TRUE)
      [] tok = "false" -> PyBool(FALSE)
      [] tok = "null"  -> PyNone
      [] tok = "\"ok\""      -> PyStr(<<"ok">>)
      [] tok = "\"fail\""    -> PyStr(<<"fail">>)
      [] tok = "\"success\"" -> PyStr(<<"success">>)
      [] tok = "\"error\""   -> PyStr(<<"error">>)
      [] tok = "\"\""        -> PyStr(<<>>)

IsObjectText(text) ==
    /\ Len(text) >= 2
    /\ text[1] = "{"
    /\ text[Len(text)] = "}"
    /\ (Len(text) - 2) % 2 = 0
    /\ \A k \in 1..((Len(text) - 2) \div 2) :
          text[2 * k] \in JsonKeys /\ text[2 * k + 1] \in ScalarToks

\* The dict of an object text; a repeated key keeps its last value.
ObjectOf(text) ==
    LET n == (Len(text) - 2) \div 2
        keys == {text[2 * k] : k \in 1..n}
        lastAt(key) == CHOOSE k \in 1..n :
            text[2 * k] = key /\ \A j \in 1..n : text[2 * j] = key => j <= k
    IN  PyDict([key \in keys |-> JsonScalar(text[2 * lastAt(key) + 1])])

\* json.loads(x): [ok, value] on success, [ok = FALSE, cls] when it raises.
json_loads(x) ==
    IF x.t # "str" THEN [ok |-> FALSE, cls |-> "TypeError", value |-> PyNone]
    ELSE IF IsObjectText(x.s) THEN [ok |-> TRUE, cls |-> "", value |-> ObjectOf(x.s)]
    ELSE IF x.s = <<"[", "]">> THEN [ok |-> TRUE, cls |-> "", value |-> PyList]
    ELSE IF Len(x.s) = 1 /\ x.s[1] \in ScalarToks
         THEN [ok |-> TRUE, cls |-> "", value |-> JsonScalar(x.s[1])]
    ELSE [ok |-> FALSE, cls |-> "JSONDecodeError", value |-> PyNone]

(***************************************************************************)
(* Exceptions.  Every exception is a record of its class and the three     *)
(* attributes the SDK errors carry; library exceptions keep their own      *)
(* attributes in the same fields (Fault: faultCode, faultString;           *)
(* ProtocolError: errcode, errmsg, url; any other: its text).              *)
(***************************************************************************)
Exc(cls, message, code, data) ==
    [cls |-> cls, message |-> message, code |-> code, data |-> data]

NoExc == Exc("", PyNone, PyNone, PyNone)

LibExc(cls, text) == Exc(cls, PyStr(text), PyNone, PyNone)

\* The classes an instance of cls is an instance of (its MRO, within Exception).
Mro(cls) ==
    {cls, "Exception"} \cup
    CASE cls = "Fault"                  -> {"xmlrpc.Error"}
      [] cls = "ProtocolError"          -> {"xmlrpc.Error"}
      [] cls = "ResponseError"          -> {"xmlrpc.Error"}
      [] cls = "TimeoutError"           -> {"OSError"}
      [] cls = "ConnectionRefusedError" -> {"ConnectionError", "OSError"}
      [] cls = "RemoteDisconnected"     -> {"ConnectionResetError", "ConnectionError",
                                            "BadStatusLine", "HTTPException", "OSError"}
      [] cls = "gaierror"               -> {"OSError"}
      [] cls = "JSONDecodeError"        -> {"ValueError"}
      [] cls = "requests.Timeout"         -> {"RequestException", "OSError"}
      [] cls = "requests.ReadTimeout"     -> {"requests.Timeout", "RequestException", "OSError"}
      [] cls = "requests.ConnectTimeout"  -> {"requests.ConnectionError", "requests.Timeout",
                                              "RequestException", "OSError"}
      [] cls = "requests.ConnectionError" -> {"RequestException", "OSError"}
      [] cls = "requests.SSLError"        -> {"requests.ConnectionError", "RequestException",
                                              "OSError"}
      [] cls = "requests.TooManyRedirects" -> {"RequestException", "OSError"}
      [] cls = "requests.InvalidURL"      -> {"RequestException", "OSError", "ValueError"}
      [] cls = "RequestException"         -> {"OSError"}
      [] OTHER -> {}

\* isinstance(e, classes): the test an `except classes` clause makes.
IsInstance(e, classes) == Mro(e.cls) \cap classes # {}

\* str(e)
ExcStr(e) ==
    IF e.cls \in {"AdapterHubRpcError", "AdapterHubApiError"}
    THEN <<"[Code ">> \o StrOf(e.code) \o <<"] ">> \o StrOf(e.message)
    ELSE StrOf(e.message)

AdapterHubRpcError(message, code, data) == Exc("AdapterHubRpcError", message, code, data)

AdapterHubApiError(message, code, data) == Exc("AdapterHubApiError", message, code, data)

\* What evaluating a call yields: a returned Result, or a raised exception.
NoResult == [raw |-> PyNone, json |-> PyNone, status_code |-> 0]
Return(result) == [kind |-> "return", result |-> result, exc |-> NoExc]
Raise(e) == [kind |-> "raise", result |-> NoResult, exc |-> e]

(***************************************************************************)
(* AdapterHubRpcResult                                                     *)
(***************************************************************************)
SuccessCode == 200
RpcDefaultCode == -1

RpcResult_code(r) == DictGet(r.json, "code", PyInt(RpcDefaultCode))

RpcResult_message(r) == DictGet(r.json, "message", PyStr(<<"Unknown error">>))

RpcResult_data(r) == DictGet(r.json, "data", PyNone)

RpcResult_error(r) == DictGet(r.json, "error", PyBool(TRUE))

\* Variant: the status code is not looked at.
RpcResult_is_success_error_only(r) == ~Truthy(RpcResult_error(r))

\* return self.code == 200 and not self.error
RpcResult_is_success(r) ==
    PyEqInt(RpcResult_code(r), SuccessCode) /\ ~Truthy(RpcResult_error(r))

(***************************************************************************)
(* AdapterHubRpcClient                                                     *)
(***************************************************************************)
RpcProtocolCode == -1000
RpcConnectCode == -1001
RpcTimeoutCode == -1002
RpcParseCode == -1003
RpcUnexpectedCode == -1999

\* Variant: the Result is returned without looking at is_success.
RpcClient_parse_response_no_check(response) ==
    LET parsed == json_loads(response)
        result == [raw |-> response, json |-> parsed.value, status_code |-> 0]
    IN  IF ~parsed.ok
        THEN Raise(LibExc(parsed.cls, <<"Expecting value">>))
        ELSE IF result.json.t # "dict"
        THEN Raise(LibExc("AttributeError", <<"object has no attribute 'get'">>))
        ELSE Return(result)

\* AdapterHubRpcResult(response) raises what json.loads raises; the accessors
\* raise AttributeError when the document is not an object (it has no .get).
RpcClient_parse_response(response) ==
    LET parsed == json_loads(response)
        result == [raw |-> response, json |-> parsed.value, status_code |-> 0]
    IN  IF ~parsed.ok
        THEN Raise(LibExc(parsed.cls, <<"Expecting value">>))
        ELSE IF result.json.t # "dict"
        THEN Raise(LibExc("AttributeError", <<"object has no attribute 'get'">>))
        ELSE IF ~RpcResult_is_success(result)
        THEN Raise(AdapterHubRpcError(RpcResult_message(result),
                                      RpcResult_code(result),
                                      RpcResult_data(result)))
        ELSE Return(result)

\* except Fault
RpcClient_on_fault(e, url) ==
    AdapterHubRpcError(PyStr(<<"RPC server error: ">> \o StrOf(e.message)),
                       e.code, PyNone)

\* except ProtocolError
RpcClient_on_protocol_error(e, url) ==
    AdapterHubRpcError(
        PyStr(<<"RPC protocol error: ">> \o StrOf(e.code) \o <<" ">> \o StrOf(e.message)),
        PyInt(RpcProtocolCode),
        PyDict([url |-> e.data, errcode |-> e.code, errmsg |-> e.message]))

\* Variant: the message does not name the server.
RpcClient_on_oserror_no_url(e, url) ==
    AdapterHubRpcError(
        PyStr(<<"RPC connection failed: cannot connect to server - ">> \o ExcStr(e)),
        PyInt(RpcConnectCode),
        PyDict([url |-> PyStr(url), error |-> PyStr(ExcStr(e))]))

\* except (ConnectionRefusedError, RemoteDisconnected, SocketError, OSError)
RpcClient_on_oserror(e, url) ==
    AdapterHubRpcError(
        PyStr(<<"RPC connection failed: cannot connect to server ">> \o url
              \o <<" - ">> \o ExcStr(e)),
        PyInt(RpcConnectCode),
        PyDict([url |-> PyStr(url), error |-> PyStr(ExcStr(e))]))

\* Variant: the TimeoutError clause comes after the OSError clause.
RpcClient_on_timeout_as_oserror(e, url) == RpcClient_on_oserror(e, url)

\* except TimeoutError
RpcClient_on_timeout(e, url) ==
    AdapterHubRpcError(PyStr(<<"RPC connection timed out: ">> \o url),
                       PyInt(RpcTimeoutCode),
                       PyDict([url |-> PyStr(url), error |-> PyStr(ExcStr(e))]))

\* except json.JSONDecodeError
RpcClient_on_json_error(e, url) ==
    AdapterHubRpcError(
        PyStr(<<"RPC response parse failed: the server did not return valid JSON">>),
        PyInt(RpcParseCode),
        PyDict([error |-> PyStr(ExcStr(e))]))

\* except Exception
RpcClient_on_exception(e, url) ==
    AdapterHubRpcError(
        PyStr(<<"RPC call failed: ", e.cls, " - ">> \o ExcStr(e)),
        PyInt(RpcUnexpectedCode),
        PyDict([error_type |-> PyStr(<<e.cls>>), error |-> PyStr(ExcStr(e))]))

\* The except clauses after the first; socket.error is OSError.  First match wins.
RpcClient_classify(e, url) ==
    IF IsInstance(e, {"Fault"}) THEN RpcClient_on_fault(e, url)
    ELSE IF IsInstance(e, {"ProtocolError"}) THEN RpcClient_on_protocol_error(e, url)
    ELSE IF IsInstance(e, {"TimeoutError"}) THEN RpcClient_on_timeout(e, url)
    ELSE IF IsInstance(e, {"ConnectionRefusedError", "RemoteDisconnected", "OSError"})
         THEN RpcClient_on_oserror(e, url)
    ELSE IF IsInstance(e, {"JSONDecodeError"}) THEN RpcClient_on_json_error(e, url)
    ELSE RpcClient_on_exception(e, url)

\* Variant: without the first clause the SDK's own error is classified again.
RpcClient_handle_rewrap(e, url) == RpcClient_classify(e, url)

\* except AdapterHubRpcError: raise
RpcClient_handle(e, url) ==
    IF IsInstance(e, {"AdapterHubRpcError"}) THEN e ELSE RpcClient_classify(e, url)

\* _call_rpc: transport is what method(*args) did, [kind, value, exc].
RpcClient_call_rpc(transport, url) ==
    LET inner == IF transport.kind = "raise"
                 THEN Raise(transport.exc)
                 ELSE RpcClient_parse_response(transport.value)
    IN  IF inner.kind = "return"
        THEN inner
        ELSE Raise(RpcClient_handle(inner.exc, url))

RpcClient_topic_message(transport, url) == RpcClient_call_rpc(transport, url)

\* The positional arguments the remote method is called with:
\* topic_message passes (topic, data) on, and _call_rpc calls method(*args).
RpcClient_call_args(topic, data) == <<topic, data>>

(***************************************************************************)
(* AdapterHubApiResult                                                     *)
(***************************************************************************)
HttpOk == 200

ApiResult_status(r) == DictGet(r.json, "status", PyStr(<<"error">>))

ApiResult_message(r) == DictGet(r.json, "message", PyStr(<<"Unknown error">>))

ApiResult_to_dict(r) == PyDict(r.json.d)

\* Variant: the HTTP status code is not looked at.
ApiResult_is_success_any_http_status(r) == PyEqStr(ApiResult_status(r), <<"success">>)

\* return self._status_code == 200 and self.status == "success"
ApiResult_is_success(r) ==
    r.status_code = HttpOk /\ PyEqStr(ApiResult_status(r), <<"success">>)

(***************************************************************************)
(* AdapterHubApiClient                                                     *)
(***************************************************************************)
HttpErrorFloor == 400
SnippetLen == 500
ApiRequestCode == -1000
ApiConnectCode == -1001
ApiTimeoutCode == -1002
ApiParseCode == -1003
ApiUnexpectedCode == -1999

RECURSIVE lstrip(_)
\* str.lstrip("/")
lstrip(str) == IF str # <<>> /\ Head(str) = "/" THEN lstrip(Tail(str)) ELSE str

RECURSIVE rstrip(_)
\* str.rstrip("/")
rstrip(str) ==
    IF str # <<>> /\ str[Len(str)] = "/"
    THEN rstrip(SubSeq(str, 1, Len(str) - 1))
    ELSE str

\* __init__: self.api_base_url = api_base_url.rstrip("/")
ApiClient_init(base_arg) == rstrip(base_arg)

\* Variant: the endpoint is joined as given.
ApiClient_url_no_lstrip(base, endpoint) == base \o <<"/">> \o endpoint

\* endpoint = endpoint.lstrip("/"); url = f"{self.api_base_url}/{endpoint}"
ApiClient_url(base, endpoint) == base \o <<"/">> \o lstrip(endpoint)

\* response.text[:500] if response.text else None
Snippet(text) ==
    IF text = <<>> THEN PyNone
    ELSE PyStr(SubSeq(text, 1, IF Len(text) < SnippetLen THEN Len(text) ELSE SnippetLen))

ApiClient_get_http_error_message(status_code) ==
    CASE status_code = 400 -> "Bad Request"
      [] status_code = 401 -> "Unauthorized"
      [] status_code = 403 -> "Forbidden"
      [] status_code = 404 -> "Not Found"
      [] status_code = 405 -> "Method Not Allowed"
      [] status_code = 408 -> "Request Timeout"
      [] status_code = 500 -> "Internal Server Error"
      [] status_code = 502 -> "Bad Gateway"
      [] status_code = 503 -> "Service Unavailable"
      [] status_code = 504 -> "Gateway Timeout"
      [] OTHER -> "Unknown Error"

\* Variant: json.JSONDecodeError is not caught in _parse_response.
ApiClient_parse_response_uncaught(response) ==
    LET parsed == json_loads(response.value)
        result == [raw |-> response.value, json |-> parsed.value,
                   status_code |-> response.status_code]
    IN  IF ~parsed.ok
        THEN Raise(LibExc(parsed.cls, <<"Expecting value">>))
        ELSE IF result.json.t # "dict"
        THEN Raise(LibExc("AttributeError", <<"object has no attribute 'get'">>))
        ELSE IF ~ApiResult_is_success(result)
        THEN Raise(AdapterHubApiError(ApiResult_message(result),
                                      PyInt(result.status_code),
                                      ApiResult_to_dict(result)))
        ELSE Return(result)

\* _parse_response: only json.JSONDecodeError is caught here; the accessors
\* raise AttributeError when the document is not an object (it has no .get).
ApiClient_parse_response(response) ==
    LET parsed == json_loads(response.value)
        result == [raw |-> response.value, json |-> parsed.value,
                   status_code |-> response.status_code]
    IN  IF ~parsed.ok
        THEN IF parsed.cls = "JSONDecodeError"
             THEN Raise(AdapterHubApiError(
                     PyStr(<<"API response parse failed: the server did not return valid JSON">>),
                     PyInt(ApiParseCode),
                     PyDict([error |-> PyStr(<<"Expecting value">>),
                             response_text |-> Snippet(response.value.s)])))
             ELSE Raise(LibExc(parsed.cls, <<"Expecting value">>))
        ELSE IF result.json.t # "dict"
        THEN Raise(LibExc("AttributeError", <<"object has no attribute 'get'">>))
        ELSE IF ~ApiResult_is_success(result)
        THEN Raise(AdapterHubApiError(ApiResult_message(result),
                                      PyInt(result.status_code),
                                      ApiResult_to_dict(result)))
        ELSE Return(result)

\* except Timeout
ApiClient_on_timeout(e, url) ==
    AdapterHubApiError(PyStr(<<"API request timed out: ">> \o url),
                       PyInt(ApiTimeoutCode),
                       PyDict([url |-> PyStr(url), error |-> PyStr(ExcStr(e))]))

\* except RequestsConnectionError
ApiClient_on_connection_error(e, url) ==
    AdapterHubApiError(
        PyStr(<<"API connection failed: cannot connect to server ">> \o url),
        PyInt(ApiConnectCode),
        PyDict([url |-> PyStr(url), error |-> PyStr(ExcStr(e))]))

\* except RequestException
ApiClient_on_request_exception(e, url) ==
    AdapterHubApiError(PyStr(<<"API request failed: ">> \o ExcStr(e)),
                       PyInt(ApiRequestCode),
                       PyDict([url |-> PyStr(url), error |-> PyStr(ExcStr(e))]))

\* except Exception
ApiClient_on_exception(e, url) ==
    AdapterHubApiError(
        PyStr(<<"API call failed: ", e.cls, " - ">> \o ExcStr(e)),
        PyInt(ApiUnexpectedCode),
        PyDict([error_type |-> PyStr(<<e.cls>>), error |-> PyStr(ExcStr(e))]))

\* Variant: the RequestsConnectionError clause comes before the Timeout clause.
ApiClient_classify_connection_first(e, url) ==
    IF IsInstance(e, {"requests.ConnectionError"})
    THEN ApiClient_on_connection_error(e, url)
    ELSE IF IsInstance(e, {"requests.Timeout"}) THEN ApiClient_on_timeout(e, url)
    ELSE IF IsInstance(e, {"RequestException"}) THEN ApiClient_on_request_exception(e, url)
    ELSE ApiClient_on_exception(e, url)

\* The except clauses after the first.  First match wins.
ApiClient_classify(e, url) ==
    IF IsInstance(e, {"requests.Timeout"}) THEN ApiClient_on_timeout(e, url)
    ELSE IF IsInstance(e, {"requests.ConnectionError"})
         THEN ApiClient_on_connection_error(e, url)
    ELSE IF IsInstance(e, {"RequestException"}) THEN ApiClient_on_request_exception(e, url)
    ELSE ApiClient_on_exception(e, url)

\* except AdapterHubApiError: raise
ApiClient_handle(e, url) ==
    IF IsInstance(e, {"AdapterHubApiError"}) THEN e ELSE ApiClient_classify(e, url)

\* Variant: the body is parsed before the status code is looked at.
ApiClient_try_parse_first(transport, url) ==
    IF transport.kind = "raise" THEN Raise(transport.exc)
    ELSE ApiClient_parse_response(transport)

\* The body of the try block of send_request; transport is what
\* self._session.post(url, ...) did, [kind, value, status_code, exc].
ApiClient_try(transport, url) ==
    IF transport.kind = "raise" THEN Raise(transport.exc)
    ELSE IF transport.status_code >= HttpErrorFloor THEN
        Raise(AdapterHubApiError(
            PyStr(<<"HTTP error: ", ToString(transport.status_code), " ",
                    ApiClient_get_http_error_message(transport.status_code)>>),
            PyInt(transport.status_code),
            PyDict([url |-> PyStr(url),
                    status_code |-> PyInt(transport.status_code),
                    response_text |-> Snippet(transport.value.s)])))
    ELSE ApiClient_parse_response(transport)

ApiClient_send_request(transport, base, endpoint) ==
    LET url == ApiClient_url(base, endpoint)
        inner == ApiClient_try(transport, url)
    IN  IF inner.kind = "return"
        THEN inner
        ELSE Raise(ApiClient_handle(inner.exc, url))

\* close(): self._session.close()
ApiClient_close(sess) == "closed"

\* Variant: __exit__ returns without closing.
ApiClient_exit_no_close(sess) == [session |-> sess, suppress |-> FALSE]

\* __exit__: self.close(); return False
ApiClient_exit(sess) == [session |-> ApiClient_close(sess), suppress |-> FALSE]

(***************************************************************************)
(* Inputs: what the transports can do, and the arguments of the calls.     *)
(***************************************************************************)
MaxSlashes == 1

RECURSIVE Slashes(_)
Slashes(n) == IF n = 0 THEN <<>> ELSE <<"/">> \o Slashes(n - 1)

Pair(key, tok) == IF tok = "absent" THEN <<>> ELSE <<key, tok>>

RpcBodyTexts ==
    { <<"{">> \o Pair("code", c) \o Pair("message", m) \o Pair("data", d)
             \o Pair("error", e) \o <<"}">> :
        c \in {"absent", "200", "-1"},
        m \in {"absent", "\"ok\"", "\"fail\""},
        d \in {"absent", "0"},
        e \in {"absent", "true", "false", "null", "0"} }

ApiBodyTexts ==
    { <<"{">> \o Pair("status", st) \o Pair("message", m) \o <<"}">> :
        st \in {"absent", "\"success\"", "\"error\""},
        m \in {"absent", "\"ok\"", "\"fail\""} }

\* Texts json.loads rejects, and valid documents that are not objects.
BadTexts == {<<>>, <<"{", "code">>}
NonObjectTexts == {<<"[", "]">>, <<"null">>}

Transport(kind, value, status_code, exc) ==
    [kind |-> kind, value |-> value, status_code |-> status_code, exc |-> exc]

NoTransport == Transport("none", PyNone, 0, NoExc)

\* xmlrpc.client.Fault(faultCode, faultString)
Fault(faultCode, faultString) == Exc("Fault", PyStr(faultString), PyInt(faultCode), PyNone)

\* xmlrpc.client.ProtocolError(url, errcode, errmsg, headers)
ProtocolError(url, errcode, errmsg) ==
    Exc("ProtocolError", PyStr(errmsg), PyInt(errcode), PyStr(url))

RpcRaised ==
    { Fault(1, <<"division by zero">>),
      Fault(-1001, <<"adapter crashed">>),
      ProtocolError(<<"localhost:9030", "/", "RPC2">>, 404, <<"Not Found">>),
      ProtocolError(<<"localhost:9030", "/", "RPC2">>, 500, <<"Internal Server Error">>),
      LibExc("TimeoutError", <<"timed out">>),
      LibExc("ConnectionRefusedError", <<"[Errno 111] Connection refused">>),
      LibExc("RemoteDisconnected", <<"Remote end closed connection without response">>),
      LibExc("gaierror", <<"[Errno -2] Name or service not known">>),
      LibExc("OSError", <<"[Errno 101] Network is unreachable">>),
      LibExc("ResponseError", <<"ResponseError()">>),
      LibExc("ExpatError", <<"syntax error: line 1, column 0">>),
      LibExc("TypeError", <<"cannot marshal objects">>) }

\* A remote method may return a value of any XML-RPC type.
RpcReturned ==
    {PyStr(text) : text \in RpcBodyTexts \cup BadTexts \cup NonObjectTexts}
    \cup {PyNone, PyInt(200)}

RpcTransports ==
    {Transport("raise", PyNone, 0, e) : e \in RpcRaised}
    \cup {Transport("return", v, 0, NoExc) : v \in RpcReturned}

ApiRaised ==
    { LibExc("requests.Timeout", <<"timed out">>),
      LibExc("requests.ConnectTimeout", <<"Connection to h timed out.">>),
      LibExc("requests.ConnectionError", <<"Connection refused">>),
      LibExc("requests.SSLError", <<"certificate verify failed">>),
      LibExc("requests.TooManyRedirects", <<"Exceeded 30 redirects.">>),
      LibExc("requests.InvalidURL", <<"Invalid URL">>),
      LibExc("TypeError", <<"Object of type set is not JSON serializable">>) }

\* response.text is always a str.
ApiReturned ==
    {Transport("return", PyStr(text), status, NoExc) :
        text \in ApiBodyTexts \cup BadTexts \cup NonObjectTexts,
        status \in {200, 201}}
    \cup
    {Transport("return", PyStr(text), status, NoExc) :
        text \in {<<>>, <<"{", "code">>, <<"{", "status", "\"success\"", "}">>},
        status \in {404, 418, 500}}

ApiTransports == {Transport("raise", PyNone, 0, e) : e \in ApiRaised} \cup ApiReturned

RpcUrls == {<<"http:", "/", "/", "localhost:9030">>}

\* The arguments of topic_message: data is a str, a dict or a list.
Topics == {PyStr(<<"sensor", "/", "data">>)}

DataArgs == {PyStr(<<"25.5">>), PyDict([device_id |-> PyStr(<<"001">>)]), PyList}

BaseArgs == {<<"http:", "/", "/", "h", "/", "api">> \o Slashes(n) : n \in 0..MaxSlashes}

Endpoints ==
    {<<>>} \cup
    {Slashes(a) \o <<"sensor", "/", "data">> \o Slashes(b) :
        a \in 0..MaxSlashes, b \in 0..MaxSlashes}

\* Exceptions the body of a with block may raise by itself.
BlockRaised == {LibExc("KeyError", <<"'device_id'">>), LibExc("ZeroDivisionError", <<"division by zero">>)}

(***************************************************************************)
(* The state machine.  `last` is the step just taken; exitCause and        *)
(* escaped describe that step as well (NoExc unless it left a with block). *)
(***************************************************************************)
NoOutcome == [kind |-> "none", result |-> NoResult, exc |-> NoExc]

Event(op, transport, endpoint, url, outcome) ==
    [op |-> op, transport |-> transport, endpoint |-> endpoint, url |-> url,
     outcome |-> outcome, data |-> PyNone, args |-> <<>>]

Init ==
    /\ rpc_url \in RpcUrls
    /\ api_base_arg \in BaseArgs
    /\ api_base_url = ApiClient_init(api_base_arg)
    /\ session = "open"
    /\ scope = "outside"
    /\ exitCause = NoExc
    /\ escaped = NoExc
    /\ last = Event("init", NoTransport, <<>>, <<>>, NoOutcome)

\* The with statement leaving its block: __exit__ runs; the exception that
\* caused the exit propagates unless __exit__ returns a true value.
Leave(sess, cause) ==
    LET r == ApiClient_exit(sess)
    IN  /\ session' = r.session
        /\ scope' = "outside"
        /\ exitCause' = cause
        /\ escaped' = IF r.suppress THEN NoExc ELSE cause

Stay(sess) ==
    /\ session' = sess
    /\ scope' = scope
    /\ exitCause' = NoExc
    /\ escaped' = NoExc

\* After a call: an exception raised inside a with block leaves the block.
After(sess, outcome) ==
    IF scope = "inside" /\ outcome.kind = "raise"
    THEN Leave(sess, outcome.exc)
    ELSE Stay(sess)

TopicMessage ==
    \E topic \in Topics, data \in DataArgs, transport \in RpcTransports :
        LET outcome == RpcClient_topic_message(transport, rpc_url)
        IN  /\ last' = [Event("topic_message", transport, <<>>, rpc_url, outcome)
                           EXCEPT !.data = data,
                                  !.args = RpcClient_call_args(topic, data)]
            /\ After(session, outcome)
            /\ UNCHANGED <<rpc_url, api_base_arg, api_base_url>>

\* self._session.post on a closed session opens connections again.
Session_post(sess) == "open"

SendRequest ==
    \E endpoint \in Endpoints, transport \in ApiTransports :
        LET outcome == ApiClient_send_request(transport, api_base_url, endpoint)
        IN  /\ last' = Event("send_request", transport, endpoint,
                             ApiClient_url(api_base_url, endpoint), outcome)
            /\ After(Session_post(session), outcome)
            /\ UNCHANGED <<rpc_url, api_base_arg, api_base_url>>

\* with client: ...  (__enter__ returns self)
Enter ==
    /\ scope = "outside"
    /\ scope' = "inside"
    /\ exitCause' = NoExc
    /\ escaped' = NoExc
    /\ last' = Event("enter", NoTransport, <<>>, <<>>, NoOutcome)
    /\ UNCHANGED <<rpc_url, api_base_arg, api_base_url, session>>

\* The block ends normally: __exit__(None, None, None).
BlockEnd ==
    /\ scope = "inside"
    /\ Leave(session, NoExc)
    /\ last' = Event("exit", NoTransport, <<>>, <<>>, NoOutcome)
    /\ UNCHANGED <<rpc_url, api_base_arg, api_base_url>>

\* The block raises an exception of its own.
BlockRaise ==
    /\ scope = "inside"
    /\ \E e \in BlockRaised :
        /\ Leave(session, e)
        /\ last' = Event("raise", NoTransport, <<>>, <<>>, Raise(e))
    /\ UNCHANGED <<rpc_url, api_base_arg, api_base_url>>

\* client.close()
Close ==
    /\ session' = ApiClient_close(session)
    /\ scope' = scope
    /\ exitCause' = NoExc
    /\ escaped' = NoExc
    /\ last' = Event("close", NoTransport, <<>>, <<>>, NoOutcome)
    /\ UNCHANGED <<rpc_url, api_base_arg, api_base_url>>

Next ==
    \/ TopicMessage
    \/ SendRequest
    \/ Enter
    \/ BlockEnd
    \/ BlockRaise
    \/ Close

Spec == Init /\ [][Next]_vars

(***************************************************************************)
(* Properties.  They read the step just taken from `last`.                 *)
(***************************************************************************)
IsTopicMessage == last.op = "topic_message"
IsSendRequest == last.op = "send_request"
Returned == last.outcome.kind = "return"
Raised == last.outcome.kind = "raise"
Error == last.outcome.exc

\* The transport delivered a text that is a JSON object; Body is its mapping.
GotObject ==
    /\ last.transport.kind = "return"
    /\ last.transport.value.t = "str"
    /\ IsObjectText(last.transport.value.s)
Body == ObjectOf(last.transport.value.s).d
Has(key) == key \in DOMAIN Body

\* The RPC body has the four fields of the wire contract, each of its type.
WellFormedRpcBody ==
    /\ GotObject
    /\ {"code", "message", "data", "error"} \subseteq DOMAIN Body
    /\ Body["code"].t = "int"
    /\ Body["message"].t = "str"
    /\ Body["error"].t = "bool"

\* C1: every completed topic_message / send_request either returned a Result
\* whose is_success is true or raised the client's own typed error; a Result
\* that is not a success is never returned and no other exception escapes.
C1_ResultOrTypedError ==
    /\ IsTopicMessage =>
          \/ /\ Returned
             /\ last.outcome.result.json.t = "dict"
             /\ RpcResult_is_success(last.outcome.result)
          \/ /\ Raised
             /\ Error.cls = "AdapterHubRpcError"
    /\ IsSendRequest =>
          \/ /\ Returned
             /\ last.outcome.result.json.t = "dict"
             /\ ApiResult_is_success(last.outcome.result)
          \/ /\ Raised
             /\ Error.cls = "AdapterHubApiError"

\* A body that parses but declares an error made topic_message raise.
C1_Witness ==
    /\ IsTopicMessage
    /\ GotObject
    /\ Has("error") /\ Body["error"] = PyBool(TRUE)
    /\ Has("code") /\ Body["code"] = PyInt(200)
    /\ Raised
    /\ Error.cls = "AdapterHubRpcError"

\* C2: a well-formed RPC body with code # 200 or error = true makes
\* topic_message raise an AdapterHubRpcError carrying exactly the body's
\* message, code and data: the error of the parsing step is not re-wrapped.
C2_BusinessErrorPassesThrough ==
    (IsTopicMessage /\ WellFormedRpcBody
        /\ (Body["code"] # PyInt(200) \/ Body["error"] = PyBool(TRUE)))
    => /\ Raised
       /\ Error = AdapterHubRpcError(Body["message"], Body["code"], Body["data"])

C2_Witness ==
    /\ IsTopicMessage
    /\ WellFormedRpcBody
    /\ Body["code"] = PyInt(-1)
    /\ Body["error"] = PyBool(TRUE)
    /\ Raised
    /\ Error.code = PyInt(-1)
    /\ Error.message = PyStr(<<"fail">>)

\* The values Python's `not` treats as false, among JSON scalars.
FalsyValues == {PyBool(FALSE), PyNone, PyInt(0), PyStr(<<>>)}

HasCode200 == Has("code") /\ Body["code"] = PyInt(200)

\* C3 (as amended): for every RPC body that is a JSON object, is_success is
\* true, and topic_message returns the Result, exactly when the body's code
\* is 200 and its error field is present and false by Python's truth test
\* (false, null, 0 or ""); a missing error field is not a success.
C3_SuccessIffCode200AndErrorFalsy ==
    (IsTopicMessage /\ GotObject) =>
        LET r == [raw |-> last.transport.value, json |-> PyDict(Body), status_code |-> 0]
            ok == HasCode200 /\ Has("error") /\ Body["error"] \in FalsyValues
        IN  /\ RpcResult_is_success(r) <=> ok
            /\ Returned <=> ok
            /\ Returned => last.outcome.result = r

\* code = 200 with "error": null was returned as a success.
C3_Witness ==
    /\ IsTopicMessage
    /\ GotObject
    /\ HasCode200
    /\ Has("error") /\ Body["error"] = PyNone
    /\ Returned

\* C3 (as stated): is_success is true exactly when code = 200 and error = false.
C3_SuccessIffCode200AndErrorFalse ==
    (IsTopicMessage /\ GotObject) =>
        (Returned <=> (HasCode200 /\ Has("error") /\ Body["error"] = PyBool(FALSE)))

\* The HTTP transport delivered a response; Status is its status code.
GotResponse == IsSendRequest /\ last.transport.kind = "return"
Status == last.transport.status_code

\* C4: an HTTP response with status >= 400 makes send_request raise an
\* AdapterHubApiError whose code is that status; the error is the one of the
\* status check (never a parse error, never built from the body), whatever
\* the body is.
C4_HttpErrorStatusRaisesBeforeParsing ==
    (GotResponse /\ Status >= 400) =>
        /\ Raised
        /\ Error.cls = "AdapterHubApiError"
        /\ Error.code = PyInt(Status)
        /\ Len(Error.message.s) = 4
        /\ Error.message.s[1] = "HTTP error: "
        /\ Error.message.s[2] = ToString(Status)
        /\ Error.data.d["status_code"] = PyInt(Status)

\* Status 404 with a body that is not JSON: code 404, "Not Found".
C4_Witness ==
    /\ GotResponse
    /\ Status = 404
    /\ last.transport.value.s = <<"{", "code">>
    /\ Raised
    /\ Error.code = PyInt(404)
    /\ Contains(Error.message.s, <<"Not Found">>)

\* C5: an HTTP response with status < 400 whose body is a JSON object is
\* returned as a Result iff the status is 200 and the body's status is
\* "success"; otherwise send_request raises an AdapterHubApiError with the
\* Result's message, the HTTP status as code and the body's mapping as data.
C5_BusinessFailureRaises ==
    (GotResponse /\ GotObject /\ Status < 400) =>
        LET ok == Status = 200 /\ Has("status") /\ Body["status"] = PyStr(<<"success">>)
            message == IF Has("message") THEN Body["message"] ELSE PyStr(<<"Unknown error">>)
        IN  /\ Returned <=> ok
            /\ Returned => /\ last.outcome.result.json = PyDict(Body)
                           /\ last.outcome.result.status_code = Status
            /\ ~ok => /\ Raised
                      /\ Error = AdapterHubApiError(message, PyInt(Status), PyDict(Body))

\* Status 201 with status "success" in the body: raised with code 201.
C5_Witness ==
    /\ GotResponse
    /\ GotObject
    /\ Status = 201
    /\ Has("status") /\ Body["status"] = PyStr(<<"success">>)
    /\ Raised
    /\ Error.code = PyInt(201)
    /\ Error.data = PyDict(Body)

\* The transport delivered a text that is not JSON.
GotBadText ==
    /\ last.transport.kind = "return"
    /\ last.transport.value.t = "str"
    /\ last.transport.value.s \in BadTexts

\* C6: on either transport, a delivered body text that is not valid JSON
\* (for HTTP: with status < 400) makes the call raise the client's typed
\* error with the parse-failure code -1003, and no other code.
C6_MalformedBodyRaisesParseFailure ==
    /\ (IsTopicMessage /\ GotBadText) =>
          /\ Raised
          /\ Error.cls = "AdapterHubRpcError"
          /\ Error.code = PyInt(-1003)
    /\ (IsSendRequest /\ GotBadText /\ Status < 400) =>
          /\ Raised
          /\ Error.cls = "AdapterHubApiError"
          /\ Error.code = PyInt(-1003)

C6_Witness ==
    /\ IsSendRequest
    /\ GotBadText
    /\ Status = 200
    /\ last.transport.value.s = <<"{", "code">>
    /\ Raised
    /\ Error.code = PyInt(-1003)

\* The transport raised an exception of one of the classes.
TransportRaised(classes) ==
    last.transport.kind = "raise" /\ last.transport.exc.cls \in classes

\* C7: a refused (or otherwise failed at socket/OS level) connection makes
\* the call raise the client's typed error with code -1001 and a message
\* that contains the target URL: the server address for the RPC client, the
\* joined request URL for the HTTP client.
C7_ConnectionFailureNamesUrl ==
    /\ (IsTopicMessage /\ TransportRaised({"ConnectionRefusedError", "RemoteDisconnected",
                                           "gaierror", "OSError"})) =>
          /\ Raised
          /\ Error.cls = "AdapterHubRpcError"
          /\ Error.code = PyInt(-1001)
          /\ Contains(Error.message.s, rpc_url)
    /\ (IsSendRequest /\ TransportRaised({"requests.ConnectionError", "requests.SSLError"})) =>
          /\ Raised
          /\ Error.cls = "AdapterHubApiError"
          /\ Error.code = PyInt(-1001)
          /\ Contains(Error.message.s, last.url)

C7_Witness ==
    /\ IsTopicMessage
    /\ TransportRaised({"ConnectionRefusedError"})
    /\ Raised
    /\ Error.code = PyInt(-1001)
    /\ Contains(Error.message.s, rpc_url)

\* trimmed is str without its trailing (leading) run of "/".
IsRTrimOf(trimmed, str) ==
    \E k \in 0..Len(str) :
        /\ trimmed = SubSeq(str, 1, k)
        /\ \A j \in (k + 1)..Len(str) : str[j] = "/"
        /\ k = 0 \/ str[k] # "/"

IsLTrimOf(trimmed, str) ==
    \E k \in 0..Len(str) :
        /\ trimmed = SubSeq(str, k + 1, Len(str))
        /\ \A j \in 1..k : str[j] = "/"
        /\ k = Len(str) \/ str[k + 1] # "/"

\* The parts a URL was joined from: url = base "/" rest.
JoinedFrom(url, base, rest) == url = base \o <<"/">> \o rest

\* C8 (as amended): the request URL is the base without its trailing slashes,
\* one "/", and the endpoint without its leading slashes; the endpoint's
\* trailing slashes are kept.  Base "http://h/api" or "http://h/api/" with
\* endpoint "/sensor/data" or "sensor/data" gives "http://h/api/sensor/data",
\* and endpoint "sensor/data/" gives "http://h/api/sensor/data/".
C8_UrlJoinsTrimmedBaseAndLeftTrimmedEndpoint ==
    IsSendRequest =>
        /\ IsRTrimOf(api_base_url, api_base_arg)
        /\ \E k \in 0..Len(last.endpoint) :
              LET rest == SubSeq(last.endpoint, k + 1, Len(last.endpoint))
              IN  IsLTrimOf(rest, last.endpoint) /\ JoinedFrom(last.url, api_base_url, rest)
        /\ last.endpoint \in {<<"/", "sensor", "/", "data">>, <<"sensor", "/", "data">>}
              => last.url = <<"http:", "/", "/", "h", "/", "api", "/", "sensor", "/", "data">>
        /\ last.endpoint = <<"sensor", "/", "data", "/">>
              => last.url = <<"http:", "/", "/", "h", "/", "api", "/", "sensor", "/", "data", "/">>

\* Base "http://h/api/" and endpoint "sensor/data/": the URL keeps the final "/".
C8_Witness ==
    /\ IsSendRequest
    /\ api_base_arg = <<"http:", "/", "/", "h", "/", "api", "/">>
    /\ last.endpoint = <<"sensor", "/", "data", "/">>
    /\ last.url = <<"http:", "/", "/", "h", "/", "api", "/", "sensor", "/", "data", "/">>

\* C8 (as stated): the endpoint is trimmed of its leading and trailing slashes.
C8_UrlJoinsTrimmedBaseAndTrimmedEndpoint ==
    IsSendRequest =>
        \E a \in 0..Len(last.endpoint), b \in 0..Len(last.endpoint) :
            LET left == SubSeq(last.endpoint, a + 1, Len(last.endpoint))
                both == SubSeq(last.endpoint, a + 1, b)
            IN  /\ IsLTrimOf(left, last.endpoint)
                /\ IsRTrimOf(both, left)
                /\ IsRTrimOf(api_base_url, api_base_arg)
                /\ JoinedFrom(last.url, api_base_url, both)

\* The category of the transport-level fault of a topic_message call
\* ("none": the transport delivered a JSON object).
FaultCategory ==
    IF TransportRaised({"Fault"}) THEN "remote"
    ELSE IF TransportRaised({"ProtocolError"}) THEN "protocol"
    ELSE IF TransportRaised({"TimeoutError"}) THEN "timeout"
    ELSE IF TransportRaised({"ConnectionRefusedError", "RemoteDisconnected",
                             "gaierror", "OSError"}) THEN "connection"
    ELSE IF GotBadText THEN "parse"
    ELSE IF GotObject THEN "none"
    ELSE "unexpected"

FixedCategories == {"protocol", "timeout", "connection", "parse", "unexpected"}

CategoryCode(category) ==
    CASE category = "protocol"   -> -1000
      [] category = "connection" -> -1001
      [] category = "timeout"    -> -1002
      [] category = "parse"      -> -1003
      [] category = "unexpected" -> -1999

\* C9 (as amended): an AdapterHubRpcError raised for a protocol fault, a
\* timeout, a connection failure, a response parse failure or an unexpected
\* exception carries the fixed negative code of its category, the five codes
\* being pairwise distinct; one raised for a remote application fault carries
\* the fault's own faultCode, whatever its sign.
C9_FixedNegativeCodesExceptRemoteFault ==
    /\ \A c1 \in FixedCategories, c2 \in FixedCategories :
          /\ CategoryCode(c1) < 0
          /\ c1 # c2 => CategoryCode(c1) # CategoryCode(c2)
    /\ (IsTopicMessage /\ FaultCategory # "none") =>
          /\ Raised
          /\ Error.cls = "AdapterHubRpcError"
          /\ FaultCategory \in FixedCategories => Error.code = PyInt(CategoryCode(FaultCategory))
          /\ FaultCategory = "remote" => Error.code = last.transport.exc.code

\* A remote fault with faultCode 1 was raised with code 1.
C9_Witness ==
    /\ IsTopicMessage
    /\ FaultCategory = "remote"
    /\ last.transport.exc.code = PyInt(1)
    /\ Raised
    /\ Error.code = PyInt(1)

\* C9 (as stated): every transport-level fault carries a negative code that
\* is not the code of another category.
C9_EveryFaultCodeNegativeAndOwn ==
    (IsTopicMessage /\ FaultCategory # "none") =>
        /\ Raised
        /\ Error.code.t = "int"
        /\ Error.code.i < 0
        /\ \A c \in FixedCategories \ {FaultCategory} : Error.code.i # CategoryCode(c)

\* C10: every step that leaves a with block leaves the session closed, an
\* exception raised inside the block leaves the block, and the exception
\* that caused the exit is the one that propagates out of it.
C10_ScopedExitClosesAndPropagates ==
    [][ /\ (scope = "inside" /\ scope' = "outside") => session' = "closed"
        /\ (scope = "inside" /\ last'.outcome.kind = "raise") =>
              /\ scope' = "outside"
              /\ session' = "closed"
              /\ escaped' = last'.outcome.exc
              /\ escaped' # NoExc ]_vars

\* A send_request raised inside the block: closed, and the error went on.
C10_Witness ==
    /\ IsSendRequest
    /\ Raised
    /\ Error.cls = "AdapterHubApiError"
    /\ scope = "outside"
    /\ exitCause = Error
    /\ escaped = Error
    /\ session = "closed"

\* C11 (as stated): the remote method is called with (topic, data), both
\* strings: a dict or list payload has been serialized to a string before
\* the call, and a string payload is passed unchanged.
C11_RemoteCallGetsStrings ==
    IsTopicMessage =>
        /\ Len(last.args) = 2
        /\ last.args[1].t = "str"
        /\ last.args[2].t = "str"
        /\ last.data.t = "str" => last.args[2] = last.data

\* The classes of the specific HTTP categories, as the transport raises them.
ApiSpecificClasses ==
    {"requests.Timeout", "requests.ReadTimeout", "requests.ConnectTimeout",
     "requests.ConnectionError", "requests.SSLError", "requests.TooManyRedirects",
     "requests.InvalidURL", "RequestException"}

\* C12: classification is first match in a fixed order.  RPC: a timeout
\* (also an OSError) gets -1002, never -1001.  HTTP: a timeout, also one that
\* is a connection error too (connect timeout), gets -1002; a connection
\* error gets -1001, never -1000; any other requests exception gets -1000.
\* A raised exception gets -1999 there exactly when it is in none of these
\* categories.  The five HTTP codes are pairwise distinct.
C12_FirstMatchPriority ==
    /\ Cardinality({ApiTimeoutCode, ApiConnectCode, ApiRequestCode,
                    ApiParseCode, ApiUnexpectedCode}) = 5
    /\ {ApiTimeoutCode, ApiConnectCode, ApiRequestCode, ApiParseCode, ApiUnexpectedCode}
          = {-1002, -1001, -1000, -1003, -1999}
    /\ (IsTopicMessage /\ TransportRaised({"TimeoutError"})) =>
          (Raised /\ Error.code = PyInt(-1002))
    /\ (IsSendRequest /\ TransportRaised({"requests.Timeout", "requests.ReadTimeout",
                                          "requests.ConnectTimeout"})) =>
          (Raised /\ Error.code = PyInt(-1002))
    /\ (IsSendRequest /\ TransportRaised({"requests.ConnectionError", "requests.SSLError"})) =>
          (Raised /\ Error.code = PyInt(-1001))
    /\ (IsSendRequest /\ TransportRaised({"requests.TooManyRedirects", "requests.InvalidURL",
                                          "RequestException"})) =>
          (Raised /\ Error.code = PyInt(-1000))
    /\ (IsSendRequest /\ last.transport.kind = "raise") =>
          (Error.code = PyInt(-1999) <=> last.transport.exc.cls \notin ApiSpecificClasses)

\* A connect timeout, both a Timeout and a ConnectionError, was reported as -1002.
C12_Witness ==
    /\ IsSendRequest
    /\ TransportRaised({"requests.ConnectTimeout"})
    /\ Raised
    /\ Error.code = PyInt(-1002)

====
